---- MODULE Spec2Model ----
(***************************************************************************)
(* Model of the Sortable component (src/src/js/sortable.js): a drag state  *)
(* object and four document listeners (dragstart, dragover, dragend,       *)
(* keydown) that splice the children of DOM lists.                         *)
(*                                                                         *)
(* The DOM is an ordered child sequence per list element.  Every handler   *)
(* runs to completion within one event (single threaded), so one action    *)
(* is one whole handler call, an uncaught exception included: a throw      *)
(* aborts the handler and keeps the assignments made before it.            *)
(***************************************************************************)
EXTENDS Integers, Sequences, FiniteSets, TLC

\* ---------------------------------------------------------------- values
\* null (state.draggingElement, state.sortableList, ... : lines 37-41)
Null == "null"

\* undefined (state.draggingIndex: line 39; getSortableIndex's bare return)
Undefined == -1

\* NaN, the value of undefined + 1 in describe()
NaN == -2

\* ---------------------------------------------------------------- bounds
\* number of sortable items the first list of a page starts with
ListLen == 2

\* ------------------------------------------------------------ host pages
\* The markup the component is attached to.  K1 is an element matching
\* config.sortableContainer and holds the assistive element S1; L1, L2 and
\* L0 are parent elements of items; A..E and O carry config.attr, H and X
\* do not; X is outside every list and container.
\*
\*   <div class="sortable" K1> <span class="assistive" S1/>
\*       <ul L1> A B .. </ul>
\*       <ul L2> .. H </ul>
\*   </div>
\*   <ul L0> .. </ul>          no ancestor of L0 matches .sortable
\*   <img X>
Items == <<"A", "B", "C", "D">>

Elements == {"A", "B", "C", "D", "E", "H", "O", "X"}

Lists == {"L1", "L2", "L0"}

\* e.target.matches(`[${this.config.attr}]`)
Matches(el) == el \notin {"H", "X"}

\* the element e.target.closest(this.config.sortableContainer) finds from a
\* child of list l
ListContainer(l) == IF l \in {"L1", "L2"} THEN "K1" ELSE Null

\* container.querySelector(this.config.assistiveText)
AssistiveOf(k) == IF k = "K1" THEN "S1" ELSE Null

\* two lists in one container
PageMain == [l \in Lists |->
               CASE l = "L1" -> SubSeq(Items, 1, ListLen)
                 [] l = "L2" -> <<"E", "H">>
                 [] l = "L0" -> <<>>]

\* a sortable item, O, outside every container
PageOrphan == [l \in Lists |->
                 CASE l = "L1" -> SubSeq(Items, 1, ListLen)
                   [] l = "L2" -> <<"H">>
                   [] l = "L0" -> <<"O">>]

\* the list of the worked examples: [A, B, C, D]
PageExample == [l \in Lists |->
                  CASE l = "L1" -> <<"A", "B", "C", "D">>
                    [] l = "L2" -> <<"H">>
                    [] l = "L0" -> <<>>]

\* ----------------------------------------------------------------- state
VARIABLES
  children,           \* DOM: list -> ordered sequence of child elements
  draggingElement,    \* state.draggingElement
  draggingIndex,      \* state.draggingIndex
  sortableList,       \* state.sortableList
  sortableContainer,  \* state.sortableContainer
  assistiveText,      \* state.assistiveText (the element)
  textContent,        \* textContent of the assistive element
  elementClass,       \* elements carrying config.draggingElementClass
  containerClass,     \* containers carrying config.draggingClass
  event,              \* the last event dispatched
  exit,               \* source line at which its handler returned or threw
  thrown,             \* the exception it raised ("none" if it returned)
  onSortCalls         \* number of config.onSort calls it made

vars == <<children, draggingElement, draggingIndex, sortableList,
          sortableContainer, assistiveText, textContent, elementClass,
          containerClass, event, exit, thrown, onSortCalls>>

\* ----------------------------------------------------------- DOM helpers
Range(s) == {s[i] : i \in 1..Len(s)}

\* el.parentElement in the DOM ch
ParentElement(ch, el) ==
  IF \E l \in Lists : el \in Range(ch[l])
    THEN CHOOSE l \in Lists : el \in Range(ch[l])
    ELSE Null

\* el.closest(this.config.sortableContainer)
Closest(ch, el) ==
  IF ParentElement(ch, el) = Null THEN Null
  ELSE ListContainer(ParentElement(ch, el))

\* container.contains(el)
Contains(ch, k, el) == k # Null /\ Closest(ch, el) = k

\* 1-based position of el in the sequence s (el occurs in s)
Pos(s, el) == CHOOSE i \in 1..Len(s) : s[i] = el

\* list.removeChild(el)
RemoveChild(s, el) == SelectSeq(s, LAMBDA x : x # el)

\* the two arrow keys exchanged
SiblingSwapped(ch, el, key) ==
  LET p == ParentElement(ch, el) IN
  IF p = Null THEN Null
  ELSE LET i == Pos(ch[p], el)
           j == IF key = "ArrowUp" THEN i + 1 ELSE i - 1
       IN IF j \in 1..Len(ch[p]) THEN ch[p][j] ELSE Null

\* el.previousElementSibling / el.nextElementSibling
Sibling(ch, el, key) ==
  LET p == ParentElement(ch, el) IN
  IF p = Null THEN Null
  ELSE LET i == Pos(ch[p], el)
           j == IF key = "ArrowUp" THEN i - 1 ELSE i + 1
       IN IF j \in 1..Len(ch[p]) THEN ch[p][j] ELSE Null

\* elements attached to the document: the possible event targets
Attached == (UNION {Range(children[l]) : l \in Lists}) \cup {"X"}

\* ------------------------------------------------------ pure code pieces
\* a < b in JavaScript, where either side may be undefined (then false)
Less(a, b) == a # Undefined /\ b # Undefined /\ a < b

\* a lookup that always takes the 'not found' exit
GetSortableIndexZero(ch, sl, el) == IF sl = Null THEN Undefined ELSE 0

\* getSortableIndex(el), lines 157-168, against state.sortableList = sl
GetSortableIndex(ch, sl, el) ==
  IF sl = Null THEN Undefined
  ELSE IF el \in Range(ch[sl]) THEN Pos(ch[sl], el) - 1
  ELSE 0

\* a sort() that always inserts 'afterend', whatever the direction
DraggingUpwardsNever(ch, sl, di, target) == FALSE

\* const draggingUpwards = ..., line 134
DraggingUpwards(ch, sl, di, target) == Less(GetSortableIndex(ch, sl, target), di)

\* the two insertion positions exchanged
InsertAdjacentSwapped(ch, target, up, el) ==
  LET p == ParentElement(ch, target) IN
  IF p = Null THEN ch
  ELSE LET i == Pos(ch[p], target)
           k == IF up THEN i ELSE i - 1
       IN [ch EXCEPT ![p] = SubSeq(@, 1, k) \o <<el>> \o SubSeq(@, k + 1, Len(@))]

\* target.insertAdjacentElement(up ? 'beforebegin' : 'afterend', el), line
\* 140: the DOM after the call.  A target without a parent inserts nothing.
InsertAdjacent(ch, target, up, el) ==
  LET p == ParentElement(ch, target) IN
  IF p = Null THEN ch
  ELSE LET i == Pos(ch[p], target)
           k == IF up THEN i - 1 ELSE i   \* el goes after the first k
       IN [ch EXCEPT ![p] = SubSeq(@, 1, k) \o <<el>> \o SubSeq(@, k + 1, Len(@))]

\* what insertAdjacentElement returns: the inserted element, or null when
\* the target has no parent
InsertAdjacentReturn(ch, target, el) ==
  IF ParentElement(ch, target) = Null THEN Null ELSE el

\* draggingIndex + 1
PlusOne(i) == IF i = Undefined THEN NaN ELSE i + 1

\* the text describe() writes, lines 219-229
DroppedText(di) == [kind |-> "dropped", pos |-> PlusOne(di), of |-> 0]

GrabbedText(di, n) == [kind |-> "grabbed", pos |-> PlusOne(di), of |-> n]

NoText == [kind |-> "none", pos |-> 0, of |-> 0]

\* describe() with state (de, di, sl, at) on the DOM ch: the exception it
\* raises and the text it leaves in the assistive element
Describe(ch, de, di, sl, at, old) ==
  IF at = Null THEN [thrown |-> "TypeError", text |-> old]
  ELSE IF de = Null THEN [thrown |-> "none", text |-> DroppedText(di)]
  ELSE IF sl = Null THEN [thrown |-> "TypeError", text |-> old]
  ELSE [thrown |-> "none", text |-> GrabbedText(di, Len(ch[sl]))]

\* sort(target), lines 132-150, from the current state: the DOM and state
\* fields it leaves, the line it stopped at and how.
Sort(target) ==
  LET up  == DraggingUpwards(children, sortableList, draggingIndex, target)
      same == [children |-> children, draggingElement |-> draggingElement,
               draggingIndex |-> draggingIndex, textContent |-> textContent,
               onSortCalls |-> 0]
  IN
  IF sortableList = Null \/ draggingElement = Null
    THEN same @@ [exit |-> 137, thrown |-> "TypeError"]
  ELSE IF draggingElement \notin Range(children[sortableList])
    THEN same @@ [exit |-> 137, thrown |-> "NotFoundError"]
  ELSE
    LET ch1 == [children EXCEPT ![sortableList] = RemoveChild(@, draggingElement)]
        ch2 == InsertAdjacent(ch1, target, up, draggingElement)
        de  == InsertAdjacentReturn(ch1, target, draggingElement)
        di  == GetSortableIndex(ch2, sortableList, de)
        d   == Describe(ch2, de, di, sortableList, assistiveText, textContent)
    IN IF d.thrown # "none"
         THEN [children |-> ch2, draggingElement |-> de, draggingIndex |-> di,
               textContent |-> textContent, onSortCalls |-> 0,
               exit |-> 146, thrown |-> d.thrown]
         ELSE [children |-> ch2, draggingElement |-> de, draggingIndex |-> di,
               textContent |-> d.text, onSortCalls |-> 1,
               exit |-> 149, thrown |-> "none"]

\* --------------------------------------------------------------- handlers
\* a handler that returns (or throws) before touching anything
Ignore(line, err) ==
  /\ exit' = line
  /\ thrown' = err
  /\ onSortCalls' = 0
  /\ UNCHANGED <<children, draggingElement, draggingIndex, sortableList,
                 sortableContainer, assistiveText, textContent, elementClass,
                 containerClass>>

\* start(e), lines 56-81
Start(t) ==
  IF ~Matches(t) THEN Ignore(58, "none")
  ELSE
    LET sl == ParentElement(children, t)
        di == GetSortableIndex(children, sl, t)
        sc == Closest(children, t)
    IN
    /\ draggingElement' = t
    /\ sortableList' = sl
    /\ draggingIndex' = di
    /\ sortableContainer' = sc
    /\ onSortCalls' = 0
    /\ UNCHANGED children
    /\ IF sc = Null
         THEN \* null.querySelector
              /\ exit' = 73
              /\ thrown' = "TypeError"
              /\ UNCHANGED <<assistiveText, textContent, elementClass, containerClass>>
         ELSE LET at == AssistiveOf(sc)
                  d  == Describe(children, t, di, sl, at, textContent)
              IN /\ assistiveText' = at
                 /\ elementClass' = elementClass \cup {t}
                 /\ containerClass' = containerClass \cup {sc}
                 /\ textContent' = d.text
                 /\ thrown' = d.thrown
                 /\ exit' = IF d.thrown = "none" THEN 81 ELSE 80

\* the assignments of a finished sort(target) call
ApplySort(r) ==
  /\ children' = r.children
  /\ draggingElement' = r.draggingElement
  /\ draggingIndex' = r.draggingIndex
  /\ textContent' = r.textContent
  /\ onSortCalls' = r.onSortCalls
  /\ UNCHANGED <<sortableList, sortableContainer, assistiveText, elementClass,
                 containerClass>>

\* over(e) without the container test of line 99
OverAnyContainer(t) ==
  IF draggingElement = Null THEN Ignore(90, "none")
  ELSE IF draggingElement = t THEN Ignore(93, "none")
  ELSE IF ~Matches(t) THEN Ignore(96, "none")
  ELSE LET r == Sort(t) IN
       /\ ApplySort(r)
       /\ exit' = IF r.thrown = "none" THEN 103 ELSE r.exit
       /\ thrown' = r.thrown

\* over(e), lines 88-103
Over(t) ==
  IF draggingElement = Null THEN Ignore(90, "none")
  ELSE IF draggingElement = t THEN Ignore(93, "none")
  ELSE IF ~Matches(t) THEN Ignore(96, "none")
  ELSE IF sortableContainer = Null THEN Ignore(99, "TypeError")
  ELSE IF ~Contains(children, sortableContainer, t) THEN Ignore(99, "none")
  ELSE LET r == Sort(t) IN
       /\ ApplySort(r)
       /\ exit' = IF r.thrown = "none" THEN 103 ELSE r.exit
       /\ thrown' = r.thrown

\* end(e), lines 110-125
End ==
  IF draggingElement = Null THEN Ignore(112, "TypeError")
  ELSE
    /\ elementClass' = elementClass \ {draggingElement}
    /\ onSortCalls' = 0
    /\ UNCHANGED <<children, assistiveText>>
    /\ IF sortableContainer = Null
         THEN \* null.classList
              /\ exit' = 113
              /\ thrown' = "TypeError"
              /\ UNCHANGED <<draggingElement, draggingIndex, sortableList,
                             sortableContainer, textContent, containerClass>>
         ELSE LET d == Describe(children, Null, draggingIndex, sortableList,
                                assistiveText, textContent)
              IN /\ containerClass' = containerClass \ {sortableContainer}
                 /\ draggingElement' = Null
                 /\ textContent' = d.text
                 /\ thrown' = d.thrown
                 /\ IF d.thrown = "none"
                      THEN /\ exit' = 125
                           /\ draggingIndex' = Undefined
                           /\ sortableContainer' = Null
                           /\ sortableList' = Null
                      ELSE /\ exit' = 119
                           /\ UNCHANGED <<draggingIndex, sortableContainer,
                                          sortableList>>

Keys == {" ", "ArrowUp", "ArrowDown", "Enter"}

Arrows == {"ArrowUp", "ArrowDown"}

\* keydown(e), lines 174-213.  focus() moves the document focus only, which
\* no handler reads; its one modelled effect is the TypeError of
\* null.focus() at line 200.
Keydown(t, key) ==
  IF ~Matches(t) THEN Ignore(176, "none")
  ELSE IF key = " " THEN
    IF draggingElement = Null THEN Start(t) ELSE End
  ELSE IF draggingElement # Null /\ key \in Arrows THEN
    LET target == Sibling(children, t, key) IN
    IF target = Null THEN Ignore(200, "none")
    ELSE LET r == Sort(target) IN
         /\ ApplySort(r)
         /\ exit' = IF r.thrown # "none" THEN r.exit ELSE 200
         /\ thrown' = IF r.thrown # "none" THEN r.thrown
                      ELSE IF r.draggingElement = Null THEN "TypeError"
                      ELSE "none"
  ELSE IF key \in Arrows THEN Ignore(211, "none")
  ELSE Ignore(213, "none")

\* ----------------------------------------------------------------- events
\* document.addEventListener(...), lines 45-48: an event on target t.  Events
\* arrive in any order and on any element attached to the document: a key
\* event goes to the focused element, and the user moves the focus between
\* events (Tab, click), whatever element the handlers focused last.
DragStartOn(t) == event' = "dragstart" /\ Start(t)

DragOverOn(t) == event' = "dragover" /\ Over(t)

DragEndOn(t) == event' = "dragend" /\ End

KeyDownOn(t, key) == event' = "keydown" /\ Keydown(t, key)

DragStart == \E t \in Attached : DragStartOn(t)

DragOver == \E t \in Attached : DragOverOn(t)

DragEnd == \E t \in Attached : DragEndOn(t)

KeyDown == \E t \in Attached, key \in Keys : KeyDownOn(t, key)

\* init(), lines 31-49, on a given page
InitOn(page) ==
  /\ children = page
  /\ draggingElement = Null
  /\ draggingIndex = Undefined
  /\ sortableContainer = Null
  /\ sortableList = Null
  /\ assistiveText = Null
  /\ textContent = NoText
  /\ elementClass = {}
  /\ containerClass = {}
  /\ event = "init"
  /\ exit = 49
  /\ thrown = "none"
  /\ onSortCalls = 0

Init == InitOn(PageMain)

Next == DragStart \/ DragOver \/ DragEnd \/ KeyDown

Spec == Init /\ [][Next]_vars

SpecOrphan == InitOn(PageOrphan) /\ [][Next]_vars

SpecExample == InitOn(PageExample) /\ [][Next]_vars

\* ----------------------------------------------------------------- claims
\* the four fields of the drag state, and all five
dragFields == <<draggingElement, draggingIndex, sortableList, sortableContainer>>

stateFields == <<draggingElement, draggingIndex, sortableList, sortableContainer,
                 assistiveText>>

\* the step is a sort(target) call: a drag-over on target that passed the
\* guards of over(), or an arrow key on an item whose sibling is target
SortCalledOn(target) ==
  \/ /\ DragOverOn(target)
     /\ draggingElement # Null /\ draggingElement # target
     /\ Matches(target) /\ Contains(children, sortableContainer, target)
  \/ \E f \in Attached, key \in Arrows :
       /\ KeyDownOn(f, key)
       /\ Matches(f) /\ draggingElement # Null
       /\ Sibling(children, f, key) = target

\* C1: every list always holds exactly the items it started with, each
\* once (items are only reordered within their list).  Stated for the page
\* with two lists in one container.
C1_ItemsPreserved ==
  \A l \in Lists :
    /\ Range(children[l]) = Range(PageMain[l])
    /\ Len(children[l]) = Len(PageMain[l])

\* C2: a sort of the dragged element D on a target T of the same list
\* leaves D immediately before T if T's index was below the dragging index
\* and immediately after T otherwise; and from [A, B, C, D] with A grabbed,
\* a drag-over on C gives [B, C, A, D] with dragging index 2.
C2_ReorderPlacesAdjacent ==
  [][/\ \A t \in Elements :
          (/\ draggingElement # Null /\ sortableList # Null
           /\ draggingElement \in Range(children[sortableList])
           /\ t \in Range(children[sortableList])
           /\ t # draggingElement
           /\ SortCalledOn(t))
          => LET old == children[sortableList]
                 new == children'[sortableList]
                 D   == draggingElement
             IN /\ D \in Range(new) /\ t \in Range(new)
                /\ IF Pos(old, t) - 1 < draggingIndex
                     THEN Pos(new, D) + 1 = Pos(new, t)
                     ELSE Pos(new, D) = Pos(new, t) + 1
     /\ (/\ children["L1"] = <<"A", "B", "C", "D">>
         /\ draggingElement = "A" /\ sortableList = "L1" /\ draggingIndex = 0
         /\ DragOverOn("C"))
        => (children'["L1"] = <<"B", "C", "A", "D">> /\ draggingIndex' = 2)
    ]_vars

\* C2 witness: the example's result, left by a drag-over that sorted
C2_Witness ==
  /\ event = "dragover" /\ onSortCalls = 1
  /\ children["L1"] = <<"B", "C", "A", "D">>
  /\ draggingElement = "A" /\ draggingIndex = 2

\* the state the example of C2 ends in: [B, C, A, D], A grabbed at index 2
AfterAOverC ==
  /\ children["L1"] = <<"B", "C", "A", "D">>
  /\ draggingElement = "A" /\ sortableList = "L1" /\ draggingIndex = 2

\* C3 as stated: from [A, B, C, D], drag-start on A, drag-over C and
\* drag-over B give [B, A, C, D] with dragging index 1.
C3_AsStated ==
  [][(AfterAOverC /\ DragOverOn("B"))
       => (children'["L1"] = <<"B", "A", "C", "D">> /\ draggingIndex' = 1)]_vars

\* C3 amended: from [A, B, C, D], drag-start on A, drag-over C and
\* drag-over B give [A, B, C, D] again, with dragging index 0 (B's index 0
\* is below A's 2, so A goes immediately before B).
C3_Amended ==
  [][(AfterAOverC /\ DragOverOn("B"))
       => (children'["L1"] = <<"A", "B", "C", "D">> /\ draggingIndex' = 0)]_vars

\* C3 witness: A back at the front after an upward drag-over
C3_Witness ==
  /\ event = "dragover" /\ onSortCalls = 1
  /\ children["L1"] = <<"A", "B", "C", "D">>
  /\ draggingElement = "A" /\ draggingIndex = 0

\* C4: whenever onSort is called, and whenever a drag is active,
\* draggingIndex is the zero-based position of draggingElement among its
\* siblings.
C4_IndexInSync ==
  (onSortCalls = 1 \/ draggingElement # Null)
    => /\ draggingElement # Null
       /\ ParentElement(children, draggingElement) # Null
       /\ draggingIndex =
            Pos(children[ParentElement(children, draggingElement)],
                draggingElement) - 1

\* C5: a drag-over that arrives with no drag active, or on a target that
\* does not match the attribute, or on a target outside the active
\* container, changes neither the lists nor any state field and calls
\* onSort not at all.
C5_GuardedOverIsNoOp ==
  [][\A t \in Elements :
       (/\ DragOverOn(t)
        /\ \/ draggingElement = Null
           \/ ~Matches(t)
           \/ ~Contains(children, sortableContainer, t))
       => (UNCHANGED <<children, stateFields>> /\ onSortCalls' = 0)]_vars

\* C5 witness: a drag is active and the last drag-over returned at the
\* container test
C5_Witness ==
  /\ event = "dragover" /\ exit = 99 /\ thrown = "none"
  /\ draggingElement # Null /\ sortableContainer # Null

\* C6: while dragging, an input whose sort target is the dragging element
\* itself (a drag-over on it, or an arrow key on the item next to it) calls
\* onSort not at all and changes neither the lists nor the dragging index.
C6_SelfTargetIsNoOp ==
  [][\A t \in Elements, key \in Arrows :
       (/\ draggingElement # Null
        /\ \/ DragOverOn(t) /\ t = draggingElement
           \/ /\ KeyDownOn(t, key) /\ Matches(t)
              /\ Sibling(children, t, key) = draggingElement)
       => (onSortCalls' = 0 /\ UNCHANGED <<children, draggingIndex>>)]_vars

\* C7: an event calls onSort exactly when it changed the order of a list
\* (once per reorder, never without one).
C7_OnSortIffReordered ==
  [][(children' # children) <=> (onSortCalls' = 1)]_vars

\* the drag state is Idle / Dragging
AllCleared ==
  /\ draggingElement = Null /\ draggingIndex = Undefined
  /\ sortableList = Null /\ sortableContainer = Null

AllSet ==
  /\ draggingElement # Null /\ draggingIndex # Undefined
  /\ sortableList # Null /\ sortableContainer # Null

\* C8: between events the four drag fields are all set or all cleared; all
\* set after a drag-start (or Space grab) on a sortable item, all cleared
\* after a drag-end (or Space drop).
C8_AllSetOrAllCleared ==
  /\ AllSet \/ AllCleared
  /\ event = "dragstart" /\ exit # 58 => AllSet
  /\ event = "dragend" => AllCleared
  /\ event = "keydown" /\ exit \in {73, 80, 81} => AllSet
  /\ event = "keydown" /\ exit \in {113, 119, 125} => AllCleared

\* C9: a drag-start on an element that is not sortable, a drag-end while
\* Idle, a drag-start on a sortable item without an enclosing container and
\* a guarded drag-over raise nothing and change neither the lists nor the
\* state.
C9_MalformedInputIsSilent ==
  [][\A t \in Elements :
       (\/ DragStartOn(t) /\ ~Matches(t)
        \/ DragStartOn(t) /\ Matches(t) /\ Closest(children, t) = Null
        \/ DragEndOn(t) /\ draggingElement = Null
        \/ /\ DragOverOn(t)
           /\ \/ draggingElement = Null
              \/ draggingElement = t
              \/ ~Matches(t)
              \/ ~Contains(children, sortableContainer, t))
       => (thrown' = "none" /\ UNCHANGED <<children, stateFields>>)]_vars

\* C10: an arrow key while dragging sorts only on a sibling that passes the
\* guards of over(): it is not the dragging element, it matches the
\* attribute and it is inside the active container.
C10_ArrowKeyKeepsOverGuards ==
  [][\A t \in Elements, key \in Arrows :
       (/\ KeyDownOn(t, key)
        /\ Matches(t) /\ draggingElement # Null
        /\ Sibling(children, t, key) # Null
        /\ (children' # children \/ onSortCalls' = 1))
       => LET target == Sibling(children, t, key)
          IN /\ target # draggingElement
             /\ Matches(target)
             /\ Contains(children, sortableContainer, target)]_vars

\* the sequence s with element i (1-based) exchanged with the next one
SwapWithNext(s, i) ==
  [k \in 1..Len(s) |-> IF k = i THEN s[i + 1] ELSE IF k = i + 1 THEN s[i] ELSE s[k]]

TrueIndex(ch, el) == Pos(ch[ParentElement(ch, el)], el) - 1

\* C12: after every drag-start (or grab) and every reorder the assistive
\* text gives the dragged item's true 1-based position and the length of
\* the list it is in; after every drop it gives the position at which the
\* dropped item sits.
C12_TextIsProjection ==
  [][/\ ((event' \in {"dragstart", "keydown"} /\ exit' \in {73, 80, 81})
           \/ children' # children)
        => /\ draggingElement' # Null
           /\ ParentElement(children', draggingElement') # Null
           /\ textContent' =
                GrabbedText(TrueIndex(children', draggingElement'),
                            Len(children'[ParentElement(children', draggingElement')]))
     /\ (draggingElement # Null /\ exit' \in {113, 119, 125})
        => /\ ParentElement(children', draggingElement) # Null
           /\ textContent' = DroppedText(TrueIndex(children', draggingElement))
    ]_vars

\* C13: for every target that passes the guards of over() in the current
\* state, the index lookup gives the target's position in its own parent's
\* child list (so 0 only for a first child).
C13_LookupIsOwnPosition ==
  \A t \in Attached :
    (/\ draggingElement # Null /\ t # draggingElement
     /\ Matches(t) /\ Contains(children, sortableContainer, t))
    => GetSortableIndex(children, sortableList, t) = TrueIndex(children, t)

\* C14: while a drag is active, draggingElement is not null and is a child
\* of sortableList.
C14_DraggedStaysInList ==
  (draggingElement # Null \/ sortableList # Null)
    => /\ draggingElement # Null /\ sortableList # Null
       /\ draggingElement \in Range(children[sortableList])

\* C15: while dragging, the dragging element and no other carries
\* draggingElementClass and its container carries draggingClass; while
\* Idle nothing carries either class.
C15_ClassesTrackDrag ==
  /\ draggingElement # Null
       => /\ elementClass = {draggingElement}
          /\ containerClass = {Closest(children, draggingElement)}
  /\ draggingElement = Null
       => (elementClass = {} /\ containerClass = {})

\* the sequence s without the element el
Without(s, el) == SelectSeq(s, LAMBDA x : x # el)

\* C16: a step changes a list only by moving the dragged element: every
\* list without it is as before; and a sort on a target of the dragged
\* element's own list leaves the element at the index the target had.
C16_OnlyDraggedMoves ==
  [][/\ \A l \in Lists :
          Without(children'[l], draggingElement) = Without(children[l], draggingElement)
     /\ \A t \in Elements :
          (/\ draggingElement # Null /\ sortableList # Null
           /\ draggingElement \in Range(children[sortableList])
           /\ t \in Range(children[sortableList])
           /\ t # draggingElement
           /\ SortCalledOn(t))
          => /\ draggingElement \in Range(children'[sortableList])
             /\ Pos(children'[sortableList], draggingElement)
                  = Pos(children[sortableList], t)
    ]_vars

\* C16 witness: B, dragged upwards over A, sits at A's former index 0
C16_Witness ==
  /\ event = "dragover" /\ onSortCalls = 1
  /\ children["L1"] = <<"B", "A">>
  /\ draggingElement = "B" /\ sortableList = "L1" /\ draggingIndex = 0

====
